---- MODULE Spec2Model ----
(***************************************************************************)
(* Two sbrk-based allocators of the repository:                            *)
(*   "coalescing"  src/src/allocator.rs  (Allocator / AllocatorImpl)       *)
(*   "retracting"  src/src/lib.rs        (StupidAllocator / AllocatorImpl) *)
(* Addresses are natural numbers.  The heap is a map from the address of a *)
(* Block header to the header's fields; the sentinel `head` lives inside    *)
(* the AllocatorImpl struct, outside the heap, at the pseudo address HEAD.  *)
(* Sizes are those of a 64-bit target (usize, pointers: 8 bytes).          *)
(***************************************************************************)
EXTENDS Integers, Sequences, FiniteSets, TLC

VARIABLES
    variant,         \* which of the two allocators this instance is
    brk,             \* the program break (sbrk's state)
    start_brk,       \* the lowest break the kernel lets sbrk go back to
    mem,             \* header address -> [data, size, next, free]
    is_initialized,  \* lib.rs AllocatorImpl::is_initialized
    status,          \* "running", or how the process ended
    outstanding,     \* ghost: [ptr, size] handed out and not yet deallocated
    freed,           \* ghost: pointers deallocated and not handed out again
    misuse,          \* ghost: a deallocate of a pointer that was not live happened
    last,            \* ghost: the record of the last completed call
    reuse,           \* ghost: progress of an allocate / deallocate / allocate sequence
    coal,            \* ghost: progress of the two-block coalescing sequence
    calls,           \* ghost: number of calls the threads have started
    lock,            \* the holder of the instance's Mutex, or NoThread
    loc,             \* per thread: the locals of its call in progress
    snap,            \* ghost, per thread: the state and locals when it took the lock
    instances        \* per instance of a process with several: its list, is_initialized

vars == <<variant, brk, start_brk, mem, is_initialized, status, outstanding,
          freed, misuse, last, reuse, coal, calls, lock, loc, snap, instances>>

----------------------------------------------------------------------------
\* Bounds of the model.
MaxBlocks == 3
MaxCalls == 3
MaxThreads == 2

\* Program constants.  SBRK_FAILED is (void*)-1; HEAD stands for the address of
\* the `head` field and DIVERGES for a recursion that does not return.
NULL == 0
SBRK_FAILED == -1
HEAD == -2
DIVERGES == -3
DANGLING == 1
BLOCK_ALIGN == 8
BLOCK_SIZE == 32
LIB_BLOCK_SIZE == 40
INTPTR_SIZE == 8

NoThread == 0
Threads == 1..MaxThreads
Variants == {"coalescing", "retracting"}
Sizes == {16, 32}
Aligns == {8, 16}
InitBreaks == {64, 72}
\* How far below the first break the heap of the process starts.
HeapBefore == {64}
\* Which extension of the break within one call the kernel refuses (0: none).
FailAts == {0, 1, 2}

----------------------------------------------------------------------------
\* allocator.rs align_up: (addr + align - 1) & !(align - 1), align a power of two.
align_up(addr, al) == LET x == addr + al - 1 IN x - (x % al)

\* lib.rs align: rounds up to a multiple of size_of::<intptr_t>().
align(size) == LET x == size + (INTPTR_SIZE - 1) IN x - (x % INTPTR_SIZE)

\* lib.rs allocation_size.
allocation_size(size) == align(size + align(LIB_BLOCK_SIZE))

\* A traversal that has followed more links than there are headers is in a cycle:
\* the recursion of the code does not return.  The status "stack_overflow" stands
\* for what a build makes of that: the stack runs out, or, where the compiler made
\* the tail call a jump, the thread loops without end.
Fuel(m) == Cardinality(DOMAIN m) + 1

\* allocator.rs Block::find_first_fit.
RECURSIVE find_first_fit(_, _, _, _)
find_first_fit(m, self, size, fuel) ==
    IF fuel = 0 THEN DIVERGES
    ELSE IF m[self].size >= size /\ m[self].free THEN self
    ELSE IF m[self].next # NULL THEN find_first_fit(m, m[self].next, size, fuel - 1)
    ELSE NULL

\* allocator.rs Block::find_by_ptr.
RECURSIVE find_by_ptr(_, _, _, _)
find_by_ptr(m, self, ptr, fuel) ==
    IF fuel = 0 THEN DIVERGES
    ELSE IF m[self].data = ptr THEN self
    ELSE IF m[self].next # NULL THEN find_by_ptr(m, m[self].next, ptr, fuel - 1)
    ELSE NULL

\* The block whose next field Block::insert assigns (both files), or DIVERGES.
RECURSIVE insert_at(_, _, _)
insert_at(m, self, fuel) ==
    IF fuel = 0 THEN DIVERGES
    ELSE IF m[self].next = NULL THEN self
    ELSE insert_at(m, m[self].next, fuel - 1)

\* allocator.rs Block::insert.
insert(m, block) ==
    LET at == insert_at(m, HEAD, Fuel(m)) IN
    IF at = DIVERGES THEN m ELSE [m EXCEPT ![at].next = block]

\* lib.rs Block::find_first_fit: a block is skipped when the request is SMALLER
\* than its recorded size or it is not free.
lib_fits(blocksize, size) == ~(size < blocksize)

RECURSIVE lib_find_first_fit(_, _, _, _)
lib_find_first_fit(m, self, size, fuel) ==
    IF fuel = 0 THEN DIVERGES
    ELSE IF ~lib_fits(m[self].size, size) \/ ~m[self].free
         THEN IF m[self].next = NULL THEN NULL
              ELSE lib_find_first_fit(m, m[self].next, size, fuel - 1)
    ELSE self

\* lib.rs Block::insert.
lib_insert(m, next) ==
    LET at == insert_at(m, HEAD, Fuel(m)) IN
    IF at = DIVERGES THEN m ELSE [m EXCEPT ![at].next = next]

\* lib.rs Block::with_ptr.
RECURSIVE with_ptr(_, _, _, _)
with_ptr(m, self, ptr, fuel) ==
    IF fuel = 0 THEN DIVERGES
    ELSE IF m[self].data = ptr THEN self
    ELSE IF m[self].next # NULL THEN with_ptr(m, m[self].next, ptr, fuel - 1)
    ELSE NULL

\* allocator.rs deallocate, the loop of lines 116-128: block.next is reassigned
\* to the successor of final_block's successor on every turn, and final_block
\* advances while that successor is free.
RECURSIVE coalesce_loop(_, _, _, _)
coalesce_loop(m, block, final_block, fuel) ==
    LET next == m[final_block].next IN
    IF fuel = 0 THEN [mem |-> m, final |-> DIVERGES]
    ELSE IF next = NULL THEN [mem |-> m, final |-> final_block]
    ELSE LET m1 == [m EXCEPT ![block].next = m[next].next] IN
         IF m1[next].free THEN coalesce_loop(m1, block, next, fuel - 1)
         ELSE [mem |-> m1, final |-> final_block]

----------------------------------------------------------------------------
\* libc sbrk with a positive increment: the old break is returned and the break
\* raised, or (void*)-1 is returned and the break is left alone.
sbrk_extend(b, incr, refused) ==
    IF refused THEN [brk |-> b, ret |-> SBRK_FAILED]
    ELSE [brk |-> b + incr, ret |-> b]

\* libc sbrk with a negative increment: the kernel refuses a break below the
\* start of the heap.
sbrk_retract(b, decr) ==
    IF b - decr < start_brk THEN [brk |-> b, ret |-> SBRK_FAILED]
    ELSE [brk |-> b - decr, ret |-> b]

\* The state one call works on, and the locals of a call.
State == [brk |-> brk, mem |-> mem, init |-> is_initialized, status |-> status]

Idle ==
    [pc |-> "idle", op |-> "none", size |-> 0, align |-> 1, ptr |-> NULL,
     fail_at |-> 0, ext |-> 0, previous_break |-> 0, alloc_sz |-> 0,
     new_brk |-> 0, block |-> NULL, ret |-> NULL, hit |-> NULL, hdr |-> NULL,
     failed |-> FALSE]

Entry(v, op) ==
    IF v = "coalescing"
    THEN (IF op = "allocate" THEN "allocate_brk" ELSE "deallocate_find")
    ELSE (IF op = "allocate" THEN "lib_allocate_start" ELSE "lib_deallocate")

NewCall(v, op, size, al, ptr, fail_at) ==
    [Idle EXCEPT !.pc = Entry(v, op), !.op = op, !.size = size, !.align = al,
                 !.ptr = ptr, !.fail_at = fail_at]

Done(G, L) == [G |-> G, L |-> [L EXCEPT !.pc = "done"]]
Ends(G, L, how) == [G |-> [G EXCEPT !.status = how], L |-> [L EXCEPT !.pc = "done"]]

----------------------------------------------------------------------------
\* allocate with the end address computed without the two roundings.
allocate_brk_noalign(G, L) ==
    [G |-> G,
     L |-> [L EXCEPT !.previous_break = G.brk,
                     !.alloc_sz = G.brk + BLOCK_SIZE + L.size,
                     !.pc = "allocate_find"]]

\* allocator.rs AllocatorImpl::allocate, lines 74-76: the break is read and the
\* END ADDRESS of the would-be block is computed into alloc_sz.
allocate_brk(G, L) ==
    LET previous_break == G.brk
        block_addr == align_up(previous_break, BLOCK_ALIGN)
    IN  [G |-> G,
         L |-> [L EXCEPT !.previous_break = previous_break,
                         !.alloc_sz = align_up(block_addr + BLOCK_SIZE, L.align) + L.size,
                         !.pc = "allocate_find"]]

\* What allocate passes to find_first_fit (line 80).
allocate_fit_size(L) == L.alloc_sz

\* allocator.rs allocate, lines 78-83: on a hit the data pointer is returned; the
\* block's fields are not written.
allocate_find(G, L) ==
    LET block == find_first_fit(G.mem, HEAD, allocate_fit_size(L), Fuel(G.mem)) IN
    IF block = DIVERGES THEN Ends(G, L, "stack_overflow")
    ELSE IF block # NULL
         THEN Done(G, [L EXCEPT !.ret = G.mem[block].data, !.hit = block])
    ELSE [G |-> G, L |-> [L EXCEPT !.pc = "allocate_sbrk"]]

\* The test allocate makes of sbrk's result (line 86): is_null().
allocate_sbrk_refused(new_brk) == new_brk = NULL

\* allocator.rs allocate, lines 85-88.
allocate_sbrk(G, L) ==
    LET r == sbrk_extend(G.brk, L.alloc_sz - L.previous_break, L.fail_at = 1)
        G1 == [G EXCEPT !.brk = r.brk]
        L1 == [L EXCEPT !.new_brk = r.ret, !.ext = 1, !.failed = (r.ret = SBRK_FAILED)]
    IN  IF allocate_sbrk_refused(r.ret) THEN Done(G1, L1)
        ELSE [G |-> G1, L |-> [L1 EXCEPT !.pc = "allocate_write"]]

\* allocator.rs allocate, lines 90-101.  With new_brk = (void*)-1 the sum in
\* align_up exceeds usize: a build with overflow checks panics there, one without
\* wraps to 0 and NonNull::new(0).unwrap() panics.
allocate_write(G, L) ==
    IF L.new_brk = SBRK_FAILED THEN Ends(G, L, "panicked")
    ELSE
    LET new_block_addr == align_up(L.new_brk, BLOCK_ALIGN)
        data == align_up(new_block_addr + BLOCK_SIZE, L.align)
        new_block == [data |-> data, size |-> L.size, next |-> NULL, free |-> FALSE]
        m1 == [a \in DOMAIN G.mem \cup {new_block_addr} |->
                 IF a = new_block_addr THEN new_block ELSE G.mem[a]]
    IN  IF insert_at(m1, HEAD, Fuel(m1)) = DIVERGES THEN Ends(G, L, "stack_overflow")
        ELSE Done([G EXCEPT !.mem = insert(m1, new_block_addr)],
                  [L EXCEPT !.ret = data, !.hdr = new_block_addr])

\* allocator.rs AllocatorImpl::deallocate, lines 105-111.
deallocate_find(G, L) ==
    LET block == find_by_ptr(G.mem, HEAD, L.ptr, Fuel(G.mem)) IN
    IF block = DIVERGES THEN Ends(G, L, "stack_overflow")
    ELSE IF block = NULL THEN Done(G, L)
    ELSE IF G.mem[block].free THEN Ends(G, L, "aborted")
    ELSE [G |-> [G EXCEPT !.mem[block].free = TRUE],
          L |-> [L EXCEPT !.block = block, !.pc = "deallocate_coalesce"]]

\* The size deallocate gives the block after the loop (line 131).
coalesced_size(block, final_block) ==
    block.size + ((final_block.data + final_block.size) - block.data)

\* allocator.rs deallocate, lines 113-133.  `final_block != block` compares the
\* two headers field by field (derived PartialEq).
deallocate_coalesce(G, L) ==
    LET block == L.block IN
    IF G.mem[block].next = NULL THEN Done(G, L)
    ELSE
    LET r == coalesce_loop(G.mem, block, G.mem[block].next, Fuel(G.mem)) IN
    IF r.final = DIVERGES THEN Ends(G, L, "hang")
    ELSE IF r.mem[r.final] # r.mem[block]
         THEN Done([G EXCEPT !.mem = [r.mem EXCEPT ![block].size =
                                  coalesced_size(r.mem[block], r.mem[r.final])]], L)
    ELSE Done([G EXCEPT !.mem = r.mem], L)

----------------------------------------------------------------------------
\* lib.rs AllocatorImpl::allocate, line 107.
lib_allocate_start(G, L) ==
    [G |-> G, L |-> [L EXCEPT !.pc = IF G.init THEN "lib_allocate_find"
                                     ELSE "initialize_brk"]]

\* lib.rs request_block, lines 151-155 (sbrk(0) and its null test), called by
\* initialize (line 92) and by allocate (line 113).
request_block_brk(G, L, then) ==
    IF G.brk = NULL THEN Done(G, L)
    ELSE [G |-> G, L |-> [L EXCEPT !.block = G.brk, !.pc = then]]

\* The test request_block makes of sbrk's result (line 158).
request_block_refused(retval) == retval = NULL \/ retval = SBRK_FAILED

\* The header request_block writes (lines 162-168): data is block.add(1).
request_block_header(block, size) ==
    [data |-> block + LIB_BLOCK_SIZE, size |-> size, next |-> NULL, free |-> FALSE]

\* lib.rs initialize, lines 91-103, from request_block's second sbrk on.  The
\* header written at the old break is copied into self.head; the copy on the heap
\* is linked nowhere and never read again.
initialize_sbrk(G, L) ==
    LET r == sbrk_extend(G.brk, allocation_size(align(0)), L.fail_at = L.ext + 1)
        G1 == [G EXCEPT !.brk = r.brk]
        L1 == [L EXCEPT !.ext = L.ext + 1, !.failed = (r.ret = SBRK_FAILED)]
    IN  IF request_block_refused(r.ret) THEN Done(G1, L1)
        ELSE [G |-> [G1 EXCEPT !.mem[HEAD] = request_block_header(L.block, 0),
                               !.init = TRUE],
              L |-> [L1 EXCEPT !.block = NULL, !.pc = "lib_allocate_find"]]

\* lib.rs allocate, lines 111-112 and 121: on a hit the data pointer is returned;
\* the block's fields are not written.
lib_allocate_find(G, L) ==
    LET block == lib_find_first_fit(G.mem, HEAD, L.size, Fuel(G.mem)) IN
    IF block = DIVERGES THEN Ends(G, L, "stack_overflow")
    ELSE IF block # NULL
         THEN Done(G, [L EXCEPT !.ret = G.mem[block].data, !.hit = block])
    ELSE [G |-> G, L |-> [L EXCEPT !.pc = "request_block_brk"]]

\* A header written over part of another header (at another address) leaves that
\* header with fields that depend on the field order the compiler chose.
Overlaps(m, block) ==
    \E a \in DOMAIN m \ {HEAD, block} :
        a < block + LIB_BLOCK_SIZE /\ block < a + LIB_BLOCK_SIZE

\* lib.rs request_block, lines 157-170, called by allocate (line 113).
request_block_sbrk(G, L) ==
    LET r == sbrk_extend(G.brk, allocation_size(align(L.size)), L.fail_at = L.ext + 1)
        G1 == [G EXCEPT !.brk = r.brk]
        L1 == [L EXCEPT !.ext = L.ext + 1, !.failed = (r.ret = SBRK_FAILED)]
        m1 == [a \in DOMAIN G.mem \cup {L.block} |->
                 IF a = L.block THEN request_block_header(L.block, L.size)
                 ELSE G.mem[a]]
    IN  IF request_block_refused(r.ret) THEN Done(G1, [L1 EXCEPT !.block = NULL])
        ELSE IF Overlaps(G.mem, L.block)
             THEN Ends([G1 EXCEPT !.mem = m1], [L1 EXCEPT !.hdr = L.block], "corrupt")
        ELSE [G |-> [G1 EXCEPT !.mem = m1],
              L |-> [L1 EXCEPT !.hdr = L.block, !.pc = "lib_allocate_insert"]]

\* lib.rs allocate, lines 117-118.
lib_allocate_insert(G, L) ==
    IF insert_at(G.mem, HEAD, Fuel(G.mem)) = DIVERGES THEN Ends(G, L, "stack_overflow")
    ELSE LET m1 == lib_insert(G.mem, L.block) IN
         Done([G EXCEPT !.mem = m1], [L EXCEPT !.ret = m1[L.block].data])

\* What deallocate lowers the break by when the freed block is the tail (line 134).
retract_size(block) == allocation_size(block.size)

\* lib.rs AllocatorImpl::deallocate, lines 125-135.
lib_deallocate_mark(G, L) ==
    LET block == with_ptr(G.mem, HEAD, L.ptr, Fuel(G.mem)) IN
    IF block = DIVERGES THEN Ends(G, L, "stack_overflow")
    ELSE IF block = NULL THEN Done(G, L)
    ELSE LET m1 == [G.mem EXCEPT ![block].free = TRUE] IN
         IF m1[block].next = NULL
         THEN Done([G EXCEPT !.mem = m1,
                             !.brk = sbrk_retract(G.brk, retract_size(m1[block])).brk],
                   [L EXCEPT !.block = block])
         ELSE Done([G EXCEPT !.mem = m1], [L EXCEPT !.block = block])

----------------------------------------------------------------------------
\* One step of a call: the code between two accesses to the list or the break.
Step(G, L) ==
    CASE L.pc = "allocate_brk" -> allocate_brk(G, L)
      [] L.pc = "allocate_find" -> allocate_find(G, L)
      [] L.pc = "allocate_sbrk" -> allocate_sbrk(G, L)
      [] L.pc = "allocate_write" -> allocate_write(G, L)
      [] L.pc = "deallocate_find" -> deallocate_find(G, L)
      [] L.pc = "deallocate_coalesce" -> deallocate_coalesce(G, L)
      [] L.pc = "lib_allocate_start" -> lib_allocate_start(G, L)
      [] L.pc = "initialize_brk" -> request_block_brk(G, L, "initialize_sbrk")
      [] L.pc = "initialize_sbrk" -> initialize_sbrk(G, L)
      [] L.pc = "lib_allocate_find" -> lib_allocate_find(G, L)
      [] L.pc = "request_block_brk" -> request_block_brk(G, L, "request_block_sbrk")
      [] L.pc = "request_block_sbrk" -> request_block_sbrk(G, L)
      [] L.pc = "lib_allocate_insert" -> lib_allocate_insert(G, L)
      [] L.pc = "lib_deallocate" -> lib_deallocate_mark(G, L)
      [] OTHER -> [G |-> G, L |-> L]

\* A whole call: its steps in order, to its return (or the end of the process).
RECURSIVE Run(_, _)
Run(G, L) ==
    IF L.pc \in {"done", "idle"} THEN [G |-> G, L |-> L]
    ELSE LET r == Step(G, L) IN Run(r.G, r.L)

----------------------------------------------------------------------------
\* Ghost bookkeeping of a completed call.
Ptrs(out) == {o.ptr : o \in out}

\* The first block in list order that is free with a recorded size >= size.
RECURSIVE FirstFit(_, _, _, _)
FirstFit(m, b, size, fuel) ==
    IF fuel = 0 THEN NULL
    ELSE IF m[b].free /\ m[b].size >= size THEN b
    ELSE IF m[b].next # NULL THEN FirstFit(m, m[b].next, size, fuel - 1)
    ELSE NULL

\* The last block of the run of free blocks that follows b in the list (b: none).
RECURSIVE LastFree(_, _, _)
LastFree(m, b, fuel) ==
    LET n == m[b].next IN
    IF fuel = 0 \/ n = NULL THEN b
    ELSE IF m[n].free THEN LastFree(m, n, fuel - 1)
    ELSE b

\* The headers the list holds: those a traversal from b comes to.
RECURSIVE Reachable(_, _, _)
Reachable(m, b, fuel) ==
    IF fuel = 0 \/ m[b].next = NULL THEN {b}
    ELSE {b} \cup Reachable(m, m[b].next, fuel - 1)

List(m) == Reachable(m, HEAD, Fuel(m))

Kind(L) ==
    IF L.op = "allocate" THEN "alloc"
    ELSE IF L.ptr \in Ptrs(outstanding) THEN "live"
    ELSE IF L.ptr \in freed THEN "double"
    ELSE "foreign"

Returned(G, L) == L.op = "allocate" /\ L.ret # NULL /\ G.status = "running"

\* Ghost: how far the last calls are into `allocate(n, a) = p; deallocate(p)`
\* (stage 1: the allocate returned p, stage 2: deallocate(p) returned after it).
ReuseNext(L0, G1, L1) ==
    IF Returned(G1, L1)
    THEN [stage |-> 1, p |-> L1.ret, size |-> L0.size, align |-> L0.align]
    ELSE IF L0.op = "deallocate" /\ reuse.stage = 1 /\ L0.ptr = reuse.p
            /\ G1.status = "running"
         THEN [reuse EXCEPT !.stage = 2]
    ELSE [stage |-> 0, p |-> NULL, size |-> 0, align |-> 1]

\* Ghost: how far the last calls are into `A = allocate(16); B = allocate(16);
\* deallocate(A); deallocate(B)`, A and B created by these two calls (stage 1: A
\* created, 2: B created next, 3: then deallocate(A), 4: then deallocate(B)).
CoalNext(L0, G1, L1) ==
    LET none == [stage |-> 0, A |-> NULL, B |-> NULL] IN
    IF Returned(G1, L1)
    THEN IF L0.size = 16 /\ L1.hdr # NULL
         THEN IF coal.stage = 1 THEN [coal EXCEPT !.stage = 2, !.B = L1.ret]
              ELSE IF coal.stage = 2 THEN [stage |-> 2, A |-> coal.B, B |-> L1.ret]
              ELSE [stage |-> 1, A |-> L1.ret, B |-> NULL]
         ELSE none
    ELSE IF L0.op = "deallocate" /\ G1.status = "running"
         THEN IF coal.stage = 2 /\ L0.ptr = coal.A THEN [coal EXCEPT !.stage = 3]
              ELSE IF coal.stage = 3 /\ L0.ptr = coal.B THEN [coal EXCEPT !.stage = 4]
              ELSE none
    ELSE none

\* The record of a call of thread t (NoThread: no thread is modelled) that started
\* in G0 with locals L0 and ended in G1, L1.
CallRec(G0, L0, G1, L1, t) ==
    [thread |-> t, op |-> L0.op, size |-> L0.size, align |-> L0.align, ptr |-> L0.ptr,
     kind |-> Kind(L0), ret |-> L1.ret, status |-> G1.status,
     brk0 |-> G0.brk, brk1 |-> G1.brk, hit |-> L1.hit, hdr |-> L1.hdr,
     hitsize |-> IF L1.hit = NULL THEN 0 ELSE G0.mem[L1.hit].size,
     hitfree |-> IF L1.hit = NULL THEN FALSE ELSE G0.mem[L1.hit].free,
     fit |-> FirstFit(G0.mem, HEAD, L0.size, Fuel(G0.mem)),
     failed |-> L1.failed,
     same |-> (G1.brk = G0.brk /\ G1.mem = G0.mem /\ G1.init = G0.init),
     dup |-> (Returned(G1, L1) /\ L1.ret \in Ptrs(outstanding)),
     reuse_p |-> IF L0.op = "allocate" /\ reuse.stage = 2
                    /\ L0.size = reuse.size /\ L0.align = reuse.align
                 THEN reuse.p ELSE NULL,
     coal_A |-> IF L0.op = "allocate" /\ coal.stage = 4 /\ L0.size = 32
                THEN coal.A ELSE NULL,
     blk |-> IF L0.op = "deallocate" THEN L1.block ELSE NULL,
     merged |-> IF L0.op = "deallocate" /\ L1.block # NULL
                THEN LET b == L1.block
                         bk == LastFree(G0.mem, b, Fuel(G0.mem))
                     IN  IF bk = b
                         THEN [size |-> G0.mem[b].size, next |-> G0.mem[b].next, k |-> 0]
                         ELSE [size |-> (G0.mem[bk].data + G0.mem[bk].size) - G0.mem[b].data,
                               next |-> G0.mem[bk].next, k |-> 1]
                ELSE [size |-> 0, next |-> NULL, k |-> 0]]

NoCall ==
    [thread |-> NoThread, op |-> "none", size |-> 0, align |-> 1, ptr |-> NULL, kind |-> "none",
     ret |-> NULL, status |-> "running", brk0 |-> 0, brk1 |-> 0, hit |-> NULL,
     hdr |-> NULL, hitsize |-> 0, hitfree |-> FALSE, fit |-> NULL, failed |-> FALSE,
     same |-> TRUE, dup |-> FALSE, reuse_p |-> NULL, coal_A |-> NULL, blk |-> NULL,
     merged |-> [size |-> 0, next |-> NULL, k |-> 0]]

Commit(G0, L0, G1, L1, t) ==
    /\ brk' = G1.brk
    /\ mem' = G1.mem
    /\ is_initialized' = G1.init
    /\ status' = G1.status
    /\ last' = CallRec(G0, L0, G1, L1, t)
    /\ reuse' = ReuseNext(L0, G1, L1)
    /\ coal' = CoalNext(L0, G1, L1)
    /\ misuse' = (misuse \/ Kind(L0) \in {"double", "foreign"})
    /\ outstanding' =
         IF Returned(G1, L1) THEN outstanding \cup {[ptr |-> L1.ret, size |-> L0.size]}
         ELSE IF L0.op = "deallocate"
              THEN outstanding \ {[ptr |-> L0.ptr, size |-> L0.size]}
         ELSE outstanding
    /\ freed' =
         IF Returned(G1, L1) THEN freed \ {L1.ret}
         ELSE IF L0.op = "deallocate" /\ Kind(L0) = "live"
                 /\ L0.ptr \notin Ptrs(outstanding \ {[ptr |-> L0.ptr, size |-> L0.size]})
              THEN freed \cup {L0.ptr}
         ELSE freed

\* What a caller may pass to deallocate: a live allocation (with its size), a
\* pointer it has deallocated already, or a pointer allocate never returned.
ForeignPtrs == {mem[HEAD].data, DANGLING} \ {NULL}
DeallocArgs ==
    outstanding \cup
    {[ptr |-> p, size |-> 0] : p \in (freed \cup ForeignPtrs) \ Ptrs(outstanding)}

\* A call made with no other call of the instance in progress.  Behaviours are
\* followed up to the first deallocate of a pointer that is not live.
Call(L0) ==
    /\ status = "running"
    /\ ~misuse
    /\ lock = NoThread
    /\ \E G0 \in {State} : \E r \in {Run(G0, L0)} :
          /\ Cardinality(DOMAIN r.G.mem) <= MaxBlocks + 1
          /\ Commit(G0, L0, r.G, r.L, NoThread)
    /\ UNCHANGED <<variant, start_brk, calls, lock, loc, snap, instances>>

\* allocator.rs GlobalAlloc::alloc / Allocator::allocate -> AllocatorImpl::allocate.
allocate ==
    /\ variant = "coalescing"
    /\ \E size \in Sizes, al \in Aligns, f \in FailAts \ {2} :
          Call(NewCall(variant, "allocate", size, al, NULL, f))

\* allocator.rs GlobalAlloc::dealloc / Allocator::deallocate -> AllocatorImpl::deallocate.
deallocate ==
    /\ variant = "coalescing"
    /\ \E a \in DeallocArgs :
          Call(NewCall(variant, "deallocate", a.size, 1, a.ptr, 0))

\* lib.rs GlobalAlloc::alloc / Allocator::allocate -> AllocatorImpl::allocate.
lib_allocate ==
    /\ variant = "retracting"
    /\ \E size \in Sizes, al \in Aligns,
          f \in (IF is_initialized THEN FailAts \ {2} ELSE FailAts) :
          Call(NewCall(variant, "allocate", size, al, NULL, f))

\* lib.rs GlobalAlloc::dealloc / Allocator::deallocate -> AllocatorImpl::deallocate.
lib_deallocate ==
    /\ variant = "retracting"
    /\ \E a \in DeallocArgs :
          Call(NewCall(variant, "deallocate", a.size, 1, a.ptr, 0))

\* AllocatorImpl::new of either file; no call has been made.
BLOCK0(v) ==
    [data |-> IF v = "coalescing" THEN DANGLING ELSE NULL,
     size |-> 0, next |-> NULL, free |-> FALSE]

\* An instance before its first call.
NewInstance(v) == [mem |-> [a \in {HEAD} |-> BLOCK0(v)], init |-> FALSE]

NoSnap ==
    [G |-> [brk |-> 0, mem |-> [a \in {HEAD} |-> BLOCK0("coalescing")],
            init |-> FALSE, status |-> "running"],
     L |-> Idle]

Init ==
    /\ variant \in Variants
    /\ brk \in InitBreaks
    /\ start_brk \in {brk - gap : gap \in HeapBefore}
    /\ mem = [a \in {HEAD} |-> BLOCK0(variant)]
    /\ is_initialized = FALSE
    /\ status = "running"
    /\ outstanding = {}
    /\ freed = {}
    /\ misuse = FALSE
    /\ last = NoCall
    /\ reuse = [stage |-> 0, p |-> NULL, size |-> 0, align |-> 1]
    /\ coal = [stage |-> 0, A |-> NULL, B |-> NULL]
    /\ calls = 0
    /\ lock = NoThread
    /\ loc = [t \in Threads |-> Idle]
    /\ snap = [t \in Threads |-> NoSnap]
    /\ instances = [i \in Threads |-> NewInstance(variant)]

Next == allocate \/ deallocate \/ lib_allocate \/ lib_deallocate

Spec == Init /\ [][Next]_vars

----------------------------------------------------------------------------
\* Ranges of bytes.
Disjoint(p, n, q, k) == p + n <= q \/ q + k <= p

HeaderSize == IF variant = "coalescing" THEN BLOCK_SIZE ELSE LIB_BLOCK_SIZE

AllocReturned == last.op = "allocate" /\ last.ret # NULL /\ last.status = "running"

\* C1: as long as deallocate is only called on live pointers, no two outstanding
\* allocations have intersecting byte ranges [p, p+size), and allocate never
\* returns a pointer that is still outstanding.
C1_NoOverlap ==
    ~misuse =>
        /\ \A a, b \in outstanding :
              a # b => Disjoint(a.ptr, a.size, b.ptr, b.size)
        /\ ~last.dup

\* C2: every non-null pointer allocate(size, align) returns is a multiple of align.
C2_Aligned == AllocReturned => last.ret % last.align = 0

\* C3: the second of two deallocate(p) calls with no allocate returning p in
\* between never returns normally: the process is aborted with a diagnostic.
C3_DoubleFreeAborts == last.kind = "double" => last.status = "aborted"

\* C4: allocate(n, a) = p; deallocate(p); allocate(n, a), with no call in
\* between: the second allocate returns p and does not raise the break.
C4_Reuse ==
    (~misuse /\ last.reuse_p # NULL) =>
        /\ AllocReturned
        /\ last.ret = last.reuse_p
        /\ last.brk1 <= last.brk0

\* C5: a free-list hit returns a block that was free, whose recorded size is >= the
\* requested size and that is the first such block in list order; the break is
\* raised only if the list holds no free block with recorded size >= size.
C5_FirstFit ==
    (~misuse /\ last.op = "allocate") =>
        /\ last.hit # NULL =>
              last.hitfree /\ last.hitsize >= last.size /\ last.fit = last.hit
        /\ last.brk1 > last.brk0 => last.fit = NULL

\* C6: when sbrk refuses an extension, allocate returns the out-of-memory result
\* (null), the process goes on, and the list and the break are as before the call.
C6_Exhaustion ==
    last.failed => last.ret = NULL /\ last.status = "running" /\ last.same

\* C7: coalescing variant: A and B created by consecutive allocate(16) calls,
\* deallocate(A), deallocate(B); the next allocate(32) returns A's data pointer
\* and leaves the break unchanged.
C7_CoalescedReuse ==
    (variant = "coalescing" /\ last.coal_A # NULL) =>
        /\ AllocReturned
        /\ last.ret = last.coal_A
        /\ last.brk1 = last.brk0

\* C8: as long as deallocate is only called on live pointers, no block header
\* and no payload handed to another caller lies inside a live payload (so what is
\* written into a live payload is read back unchanged).
C8_Frame ==
    ~misuse =>
        \A o \in outstanding :
            /\ \A b \in outstanding \ {o} : Disjoint(o.ptr, o.size, b.ptr, b.size)
            /\ \A h \in DOMAIN mem \ {HEAD} : Disjoint(o.ptr, o.size, h, HeaderSize)
            /\ (last.dup => last.ret # o.ptr)

\* C10: deallocate of a pointer allocate never returned terminates the process.
C10_ForeignFreeAborts == last.kind = "foreign" => last.status = "aborted"

----------------------------------------------------------------------------
\* The threads of a process on one shared instance.  Every entry point is
\* `self.<mutex>.lock().<method>(..)`: the guard is taken before the method runs
\* and dropped when the statement ends.

\* A lock that lets a thread in while another holds it.
CanLock_noexclusion(l) == TRUE

\* Mutex::lock (spin, parking_lot): returns once no thread holds the mutex.
CanLock(l) == l = NoThread

Enter(t, L0) ==
    /\ status = "running"
    /\ ~misuse
    /\ calls < MaxCalls
    /\ loc[t].pc = "idle"
    /\ CanLock(lock)
    /\ lock' = t
    /\ loc' = [loc EXCEPT ![t] = L0]
    /\ snap' = [snap EXCEPT ![t] = [G |-> State, L |-> L0]]
    /\ calls' = calls + 1
    /\ UNCHANGED <<variant, brk, start_brk, mem, is_initialized, status,
                   outstanding, freed, misuse, last, reuse, coal, instances>>

\* GlobalAlloc::alloc / Allocator::allocate of either file, up to the lock taken.
thread_allocate(t) ==
    \E size \in Sizes, al \in Aligns,
       f \in (IF variant = "retracting" /\ ~is_initialized THEN FailAts
              ELSE FailAts \ {2}) :
        Enter(t, NewCall(variant, "allocate", size, al, NULL, f))

\* GlobalAlloc::dealloc / Allocator::deallocate of either file, up to the lock taken.
thread_deallocate(t) ==
    \E a \in DeallocArgs :
        Enter(t, NewCall(variant, "deallocate", a.size, 1, a.ptr, 0))

\* The next step of the AllocatorImpl method thread t is in.
thread_step(t) ==
    /\ status = "running"
    /\ loc[t].pc \notin {"idle", "done"}
    /\ \E r \in {Step(State, loc[t])} :
          /\ Cardinality(DOMAIN r.G.mem) <= MaxBlocks + 1
          /\ brk' = r.G.brk
          /\ mem' = r.G.mem
          /\ is_initialized' = r.G.init
          /\ status' = r.G.status
          /\ loc' = [loc EXCEPT ![t] = r.L]
    /\ UNCHANGED <<variant, start_brk, outstanding, freed, misuse, last, reuse,
                   coal, calls, lock, snap, instances>>

\* The method has returned: the guard is dropped and the caller has the result.
thread_unlock(t) ==
    /\ status = "running"
    /\ loc[t].pc = "done"
    /\ Commit(snap[t].G, snap[t].L, State, loc[t], t)
    /\ lock' = NoThread
    /\ loc' = [loc EXCEPT ![t] = Idle]
    /\ snap' = [snap EXCEPT ![t] = NoSnap]
    /\ UNCHANGED <<variant, start_brk, calls, instances>>

NextConc ==
    \E t \in Threads :
        thread_allocate(t) \/ thread_deallocate(t) \/ thread_step(t) \/ thread_unlock(t)

SpecConc == Init /\ [][NextConc]_vars

\* C9: every call holds the instance's mutex from before its first access to the
\* list or the break until after its last, so no step of another call comes in
\* between: at every point of a call, what is left of it ends in the state and the
\* result that the whole call, run alone from the state it found, ends in.
C9_Serialized ==
    \A t \in Threads :
        loc[t].pc # "idle" =>
            /\ lock = t
            /\ Run(State, loc[t]) = Run(snap[t].G, snap[t].L)

\* A thread is past extending the break, about to write its header into the
\* list, after another thread's call on the instance has completed.
C9_Witness ==
    \E t \in Threads :
        /\ last.op = "allocate" /\ last.thread \in Threads \ {t}
        /\ loc[t].pc \in {"allocate_write", "lib_allocate_insert"}
        /\ State # snap[t].G
        /\ outstanding # {}


----------------------------------------------------------------------------
\* Requests of size 0, by entry point.
ZeroSizes == {0, 16}
ZeroAligns == {8}

\* An entry point returns without calling the AllocatorImpl method.
Returns(L0) ==
    /\ status = "running"
    /\ ~misuse
    /\ lock = NoThread
    /\ \E G0 \in {State} : Commit(G0, L0, G0, [L0 EXCEPT !.pc = "done"], NoThread)
    /\ UNCHANGED <<variant, start_brk, calls, lock, loc, snap, instances>>

\* allocator.rs GlobalAlloc::alloc (lines 23-27): the method is called with the
\* layout as it is; is_aligned() of a *mut u8 is true of every pointer.
alloc ==
    /\ variant = "coalescing"
    /\ \E size \in ZeroSizes, al \in ZeroAligns :
          Call(NewCall(variant, "allocate", size, al, NULL, 0))

\* allocator.rs Allocator::allocate (lines 35-47).
trait_allocate ==
    /\ variant = "coalescing"
    /\ \E size \in ZeroSizes, al \in ZeroAligns :
          Call(NewCall(variant, "allocate", size, al, NULL, 0))

\* lib.rs GlobalAlloc::alloc (lines 34-40): size 0 returns null before the lock.
lib_alloc ==
    /\ variant = "retracting"
    /\ \E size \in ZeroSizes, al \in ZeroAligns :
          LET L0 == NewCall(variant, "allocate", size, al, NULL, 0) IN
          IF size = 0 THEN Returns(L0) ELSE Call(L0)

\* lib.rs Allocator::allocate (lines 50-60): no test of the size.
lib_trait_allocate ==
    /\ variant = "retracting"
    /\ \E size \in ZeroSizes, al \in ZeroAligns :
          Call(NewCall(variant, "allocate", size, al, NULL, 0))

NextZero ==
    \/ alloc \/ trait_allocate \/ lib_alloc \/ lib_trait_allocate
    \/ deallocate \/ lib_deallocate

SpecZero == Init /\ [][NextZero]_vars

\* C11: an allocate of size 0 returns the zero-size result (null), whatever the
\* entry point, and leaves the break and the list as they were.
C11_ZeroSize ==
    (last.op = "allocate" /\ last.size = 0) =>
        /\ last.ret = NULL
        /\ last.brk1 = last.brk0
        /\ last.hdr = NULL
        /\ last.same


----------------------------------------------------------------------------
\* C12: coalescing variant: after deallocate(p) every allocation that is still
\* live has its block in the list, not free and with its size, and its payload
\* lies outside the extent [data, data+size) of every other block of the list.
C12_MergeKeepsLive ==
    (variant = "coalescing" /\ ~misuse /\ last.op = "deallocate"
                            /\ last.status = "running") =>
        \A o \in outstanding :
            \E a \in List(mem) \ {HEAD} :
                /\ mem[a].data = o.ptr /\ ~mem[a].free /\ mem[a].size = o.size
                /\ \A c \in List(mem) \ {HEAD, a} :
                      Disjoint(o.ptr, o.size, mem[c].data, mem[c].size)

\* C13: coalescing variant: after deallocate of block b, b.size is the extent from
\* b.data to the end of the last free block that followed b and b.next is that
\* block's former successor; with no free immediate successor both are unchanged.
C13_MergedExtent ==
    (variant = "coalescing" /\ last.kind = "live" /\ last.blk # NULL
                            /\ last.status = "running") =>
        /\ mem[last.blk].size = last.merged.size
        /\ mem[last.blk].next = last.merged.next

\* C14: a free-list hit leaves the block not free, so a free block of the list has
\* no outstanding pointer and a block that is not free has one.
C14_HitClearsFree ==
    (~misuse /\ status = "running") =>
        /\ (AllocReturned /\ last.hit # NULL) => ~mem[last.hit].free
        /\ \A a \in List(mem) \ {HEAD} :
              mem[a].free <=> mem[a].data \notin Ptrs(outstanding)

\* C15: after allocate and deallocate calls on live pointers the list from the head
\* is acyclic: a traversal comes to a block whose next is null.
C15_Acyclic == ~misuse => insert_at(mem, HEAD, Fuel(mem)) # DIVERGES

\* C16: the payload of every live allocation, and with it the header before it,
\* ends at or below the program break, and deallocate lowers the break only when
\* the freed block is the tail.
C16_BelowBreak ==
    ~misuse =>
        /\ \A o \in outstanding : o.ptr + o.size <= brk
        /\ (last.op = "deallocate" /\ last.brk1 < last.brk0) =>
              (last.blk # NULL /\ mem[last.blk].next = NULL)

\* C17: every call returns or aborts the process: no traversal of the list
\* (find_first_fit, find_by_ptr / with_ptr, insert, the coalescing loop) goes on
\* without end.
C17_Terminates == ~misuse => status \notin {"stack_overflow", "hang"}


----------------------------------------------------------------------------
\* The coalescing variant alone, from breaks that are and are not multiples of
\* align_of::<Block>().
MissBreaks == {64, 68, 72}

InitCoalescing ==
    /\ variant = "coalescing"
    /\ brk \in MissBreaks
    /\ start_brk \in {brk - gap : gap \in HeapBefore}
    /\ mem = [a \in {HEAD} |-> BLOCK0(variant)]
    /\ is_initialized = FALSE
    /\ status = "running"
    /\ outstanding = {}
    /\ freed = {}
    /\ misuse = FALSE
    /\ last = NoCall
    /\ reuse = [stage |-> 0, p |-> NULL, size |-> 0, align |-> 1]
    /\ coal = [stage |-> 0, A |-> NULL, B |-> NULL]
    /\ calls = 0
    /\ lock = NoThread
    /\ loc = [t \in Threads |-> Idle]
    /\ snap = [t \in Threads |-> NoSnap]
    /\ instances = [i \in Threads |-> NewInstance(variant)]

NextCoalescing == allocate \/ deallocate

SpecCoalescing == InitCoalescing /\ [][NextCoalescing]_vars

\* C18: coalescing variant: an allocate that misses the list and whose extension
\* succeeds raises the break from old_break to exactly data + size, with
\* block_addr = align_up(old_break, align_of Block) and data =
\* align_up(block_addr + size_of Block, align); header and payload lie inside
\* [old_break, new_break); the new block is the tail of the list, not free, with
\* the requested size.  An allocate that hits the list leaves the break alone.
C18_MissExtends ==
    (variant = "coalescing" /\ last.op = "allocate" /\ last.status = "running"
                            /\ ~last.failed) =>
        IF last.hit # NULL THEN last.brk1 = last.brk0
        ELSE LET block_addr == align_up(last.brk0, BLOCK_ALIGN)
                 data == align_up(block_addr + BLOCK_SIZE, last.align)
             IN  /\ last.ret = data
                 /\ last.hdr = block_addr
                 /\ last.brk1 = data + last.size
                 /\ last.brk0 <= block_addr
                 /\ block_addr + BLOCK_SIZE <= data
                 /\ block_addr \in DOMAIN mem
                 /\ mem[block_addr] = [data |-> data, size |-> last.size,
                                       next |-> NULL, free |-> FALSE]
                 /\ insert_at(mem, HEAD, Fuel(mem)) = block_addr

\* A miss with padding between header and payload whose block is appended behind
\* an earlier block.
C18_Witness ==
    /\ variant = "coalescing"
    /\ AllocReturned
    /\ last.hit = NULL
    /\ last.brk1 > last.brk0
    /\ last.ret # last.hdr + BLOCK_SIZE
    /\ mem[HEAD].next # last.hdr
    /\ mem[last.hdr].next = NULL


----------------------------------------------------------------------------
\* Several instances in one process (the #[global_allocator] static and a local
\* Allocator::new()), instance i called by thread i.  Each instance has its own
\* Mutex, which its one caller always finds free; the program break is the
\* process's.  Only allocate is called, so the break is never lowered.
TwoSizes == {8, 16}

InstanceState(i) ==
    [brk |-> brk, mem |-> instances[i].mem, init |-> instances[i].init,
     status |-> status]

\* GlobalAlloc::alloc / Allocator::allocate of instance i, up to the lock taken.
instance_allocate(i) ==
    /\ status = "running"
    /\ calls < MaxCalls
    /\ loc[i].pc = "idle"
    /\ \E size \in TwoSizes, al \in Aligns :
          loc' = [loc EXCEPT ![i] = NewCall(variant, "allocate", size, al, NULL, 0)]
    /\ calls' = calls + 1
    /\ UNCHANGED <<variant, brk, start_brk, mem, is_initialized, status, outstanding,
                   freed, misuse, last, reuse, coal, lock, snap, instances>>

\* The next step of the AllocatorImpl method of instance i.
instance_step(i) ==
    /\ status = "running"
    /\ loc[i].pc \notin {"idle", "done"}
    /\ \E r \in {Step(InstanceState(i), loc[i])} :
          /\ Cardinality(DOMAIN r.G.mem) <= MaxBlocks + 1
          /\ brk' = r.G.brk
          /\ instances' = [instances EXCEPT ![i] = [mem |-> r.G.mem, init |-> r.G.init]]
          /\ status' = r.G.status
          /\ loc' = [loc EXCEPT ![i] = r.L]
    /\ UNCHANGED <<variant, start_brk, mem, is_initialized, outstanding, freed,
                   misuse, last, reuse, coal, calls, lock, snap>>

\* The method of instance i has returned and its guard is dropped.
instance_return(i) ==
    /\ status = "running"
    /\ loc[i].pc = "done"
    /\ loc' = [loc EXCEPT ![i] = Idle]
    /\ UNCHANGED <<variant, brk, start_brk, mem, is_initialized, status, outstanding,
                   freed, misuse, last, reuse, coal, calls, lock, snap, instances>>

NextTwo ==
    \E i \in Threads : instance_allocate(i) \/ instance_step(i) \/ instance_return(i)

SpecTwo == Init /\ [][NextTwo]_vars

\* The blocks instance i has created, and the bytes of one: header and payload.
Blocks(i) == DOMAIN instances[i].mem \ {HEAD}
BlockEnd(i, a) == instances[i].mem[a].data + instances[i].mem[a].size

\* C19: the blocks that instances called from concurrent threads create lie
\* below the program break and do not overlap the blocks of another instance.
C19_InstancesApart ==
    \A i \in Threads : \A a \in Blocks(i) :
        /\ a + HeaderSize <= brk
        /\ BlockEnd(i, a) <= brk
        /\ \A j \in Threads \ {i} : \A c \in Blocks(j) :
              Disjoint(a, BlockEnd(i, a) - a, c, BlockEnd(j, c) - c)

====
